---- MODULE Spec2Model ----
(***************************************************************************)
(* State machine of the AfterImage rod puzzle (the App component).         *)
(*                                                                         *)
(* The state is the component's React state; every action is one event     *)
(* handler run to completion together with the effects its state change    *)
(* triggers (a difficulty change re-runs initPuzzle through the effect at  *)
(* lines 57-59 before any other handler can run).                          *)
(*                                                                         *)
(* A handler that receives a piece from the render (startDrag) receives    *)
(* the piece of the current state: React re-renders between two discrete   *)
(* events.                                                                 *)
(*                                                                         *)
(* Pixel quantities (pointer coordinates, grab offset, cell size) are held *)
(* in quarter pixels, so that containerSize / gridSize is integral for the *)
(* container sizes 300 and 600 and the grid sizes 6, 10 and 16; for those  *)
(* values the floating-point arithmetic of the source is exact.            *)
(***************************************************************************)
EXTENDS Integers, Sequences, FiniteSets, TLC

VARIABLES difficulty, pieces, draggingId, offset, isSolved, loading,
          geminiHint, containerSize,
          listenerId,  \* the draggingId captured by the registered window
                       \* listeners, NULL when none is registered
          pending,     \* the fetchHint calls awaiting their response, each
                       \* with the instance it was started in
          instance,    \* number of the puzzle instance, part of every piece id
          lastEvent,   \* history: the handler that produced this state
          grab         \* history: where the last drag started (SpecDrag only)

vars == <<difficulty, pieces, draggingId, offset, isSolved, loading,
          geminiHint, containerSize, listenerId, pending, instance,
          lastEvent, grab>>

\* the program's own state
appState == <<difficulty, pieces, draggingId, offset, isSolved, loading,
              geminiHint, containerSize, listenerId, pending, instance>>

(* ---------------------------- bounds ----------------------------------- *)

\* number of regenerations (reset, difficulty change) explored after mount
MaxResets == 1

\* Math.random() is sampled at the points k / RandDen, k = 0 .. RandDen - 1
RandDen == 2

\* pointer columns / rows (in cells) fed to handleMove; -1 and 20 lie outside
\* the container on either side
PointerCells == {-1, 4, 8, 20}

\* displacement of the pointer from the corner of its cell, the same along
\* both axes, in quarter pixels
PointerSub == {0, 100}

\* point inside the piece at which a drag grabs it, in quarter pixels
GrabPoints == {0, 60}

\* offsetWidth values of the parent element seen by updateSize
ParentWidths == {200, 900}

\* number of fetchHint calls that may await their response at once
MaxPending == 2

\* pointer columns / rows fed to handleMove while hints are explored
HintPointerCells == {-1, 4, 20}

\* pointer displacements from the start of a drag, in cell widths
GrabSteps == {-12, 0, 1}

(* ---------------------------- helpers ---------------------------------- *)

NULL == <<>>

Difficulty == {"Easy", "Medium", "Hard"}

Max(a, b) == IF a >= b THEN a ELSE b

Min(a, b) == IF a <= b THEN a ELSE b

gridSize(d) == IF d = "Easy" THEN 6 ELSE IF d = "Medium" THEN 10 ELSE 16

\* containerSize / gridSize, in quarter pixels
cellSize(cs, g) == (4 * cs) \div g

\* fault: the quotient truncated instead of rounded
MathRoundFloor(n, d) == n \div d

\* Math.round(n / d) for d > 0: the nearest integer, ties towards +infinity
MathRound(n, d) == (2 * n + d) \div (2 * d)

\* fault: the upper limit dropped
ClampNoUpper(lo, hi, v) == Max(lo, v)

\* Math.max(lo, Math.min(hi, v))
Clamp(lo, hi, v) == Max(lo, Min(hi, v))

\* Math.floor(Math.random() * n) over the sampled values of Math.random()
RandInt(n) == { (k * n) \div RandDen : k \in 0 .. (RandDen - 1) }

IsLockedPiece(p) == p.isLocked

IsUnlockedPiece(p) == ~p.isLocked

\* all orders a sequence can be put in
Perms(s) ==
  { [i \in 1 .. Len(s) |-> s[f[i]]] :
      f \in { g \in [1 .. Len(s) -> 1 .. Len(s)] :
                \A i, j \in 1 .. Len(s) : i # j => g[i] # g[j] } }

(* ------------------- generation (utils/puzzleEngine) ------------------- *)

RECURSIVE SumTo(_, _)
SumTo(s, k) == IF k = 0 THEN 0 ELSE s[k] + SumTo(s, k - 1)

\* full-width rods stacked top to bottom
HBands(g, hs) ==
  [k \in 1 .. Len(hs) |-> [x |-> 0, y |-> SumTo(hs, k - 1), w |-> g, h |-> hs[k]]]

\* full-height rods side by side
VBands(g, ws) ==
  [k \in 1 .. Len(ws) |-> [x |-> SumTo(ws, k - 1), y |-> 0, w |-> ws[k], h |-> g]]

\* fault: the lower half of the grid left without a rod
RodLayoutsGap(g) == { HBands(g, <<g \div 2>>) }

\* the partitions of the g x g grid the generator may return
RodLayouts(g) ==
  IF g = 6 THEN { HBands(6, <<4, 1, 1>>) }
  ELSE IF g = 10 THEN { VBands(10, <<4, 6>>) }
  ELSE { HBands(g, <<g \div 2, g - (g \div 2)>>) }

\* generateRods: pieces of one layout, at home, unlocked, with fresh ids
generateRods(g, inst) ==
  { [k \in 1 .. Len(lay) |->
       [id |-> <<inst, k>>,
        originalX |-> lay[k].x, originalY |-> lay[k].y,
        currentX |-> lay[k].x, currentY |-> lay[k].y,
        width |-> lay[k].w, height |-> lay[k].h,
        isLocked |-> FALSE]] : lay \in RodLayouts(g) }

\* the placements one piece can be given: any cell that keeps it in the grid
Placements(p, g) ==
  { [p EXCEPT !.currentX = x, !.currentY = y] :
      x \in RandInt(g - p.width + 1), y \in RandInt(g - p.height + 1) }

\* one placement for every piece of s, in order
RECURSIVE PlaceAll(_, _)
PlaceAll(s, g) ==
  IF s = <<>> THEN { <<>> }
  ELSE { <<p>> \o rest : p \in Placements(Head(s), g), rest \in PlaceAll(Tail(s), g) }

\* shufflePieces: every piece re-placed inside the grid, order kept
shufflePieces(newPieces, g) == PlaceAll(newPieces, g)

(* ------------------------------ Init ----------------------------------- *)

\* Math.max(300, Math.min(600, width - 32))
NewSize(width) == Max(300, Min(600, width - 32))

Init ==
  /\ difficulty = "Medium"
  /\ instance = 0
  /\ \E newPieces \in generateRods(gridSize("Medium"), 0) :
       pieces \in shufflePieces(newPieces, gridSize("Medium"))
  /\ draggingId = NULL
  /\ offset = [x |-> 0, y |-> 0]
  /\ isSolved = FALSE
  /\ loading = FALSE
  /\ geminiHint = NULL
  /\ containerSize \in { NewSize(w) : w \in ParentWidths }
  /\ listenerId = NULL
  /\ pending = <<>>
  /\ lastEvent = "mount"
  /\ grab = NULL

(* ----------------------------- actions --------------------------------- *)

\* the regeneration shared by mount, Reset, Play Again and difficulty change
initPuzzle(d) ==
  /\ instance < MaxResets
  /\ instance' = instance + 1
  /\ \E newPieces \in generateRods(gridSize(d), instance + 1) :
       pieces' \in shufflePieces(newPieces, gridSize(d))
  /\ isSolved' = FALSE
  /\ geminiHint' = NULL
  /\ loading' = FALSE
  /\ UNCHANGED <<draggingId, offset, containerSize, listenerId, pending>>

\* Reset / Play Again button, or a new source
Reset ==
  /\ initPuzzle(difficulty)
  /\ UNCHANGED difficulty
  /\ lastEvent' = "reset"
  /\ UNCHANGED grab

\* difficulty button: setDifficulty(d), then the effect re-runs initPuzzle
setDifficulty(d) ==
  /\ d # difficulty
  /\ difficulty' = d
  /\ initPuzzle(d)

\* ResizeObserver callback
updateSize(width) ==
  /\ containerSize' = NewSize(width)
  /\ containerSize' # containerSize
  /\ UNCHANGED <<difficulty, pieces, draggingId, offset, isSolved, loading,
                 geminiHint, listenerId, pending, instance>>

(* ------------------------------ drag ----------------------------------- *)

\* fault: the effect returns no cleanup, a listener outlives its drag
DragEffectNoCleanup(registered, id) == IF id = NULL THEN registered ELSE id

\* the drag effect after a render with draggingId = id: the cleanup removes
\* the listeners of the previous render, and new ones are added unless
\* !draggingId
DragEffect(registered, id) == id

\* fault: the locked-piece guard dropped
CanStartDragAny(clickedPiece) == TRUE

\* fault: drags refused while a hint is being fetched
CanStartDragNotLoading(clickedPiece) == ~clickedPiece.isLocked /\ ~loading

\* if (clickedPiece.isLocked) return;
CanStartDrag(clickedPiece) == ~clickedPiece.isLocked

\* fault: the clicked piece appended without being removed first
MoveToEndKeep(prev, clickedPiece) == Append(prev, clickedPiece)

\* fault: the clicked piece put first instead of last
MoveToFront(prev, clickedPiece) ==
  <<clickedPiece>> \o SelectSeq(prev, LAMBDA p : p.id # clickedPiece.id)

\* [...prev.filter(p => p.id !== clickedPiece.id), clickedPiece]
MoveToEnd(prev, clickedPiece) ==
  SelectSeq(prev, LAMBDA p : p.id # clickedPiece.id) \o <<clickedPiece>>

\* startDrag; clientX, clientY are taken relative to the container origin
startDrag(relativeX, relativeY, clickedPiece) ==
  IF ~CanStartDrag(clickedPiece)
  THEN UNCHANGED appState
  ELSE LET cell == cellSize(containerSize, gridSize(difficulty)) IN
       /\ pieces' = MoveToEnd(pieces, clickedPiece)
       /\ draggingId' = clickedPiece.id
       /\ offset' = [x |-> relativeX - clickedPiece.currentX * cell,
                     y |-> relativeY - clickedPiece.currentY * cell]
       /\ listenerId' = DragEffect(listenerId, clickedPiece.id)
       /\ UNCHANGED <<difficulty, isSolved, loading, geminiHint,
                      containerSize, pending, instance>>

\* the position handleMove gives the dragged piece p
MovedPiece(p, relativeX, relativeY, g, cell) ==
  LET nextX == MathRound(relativeX - offset.x, cell)
      nextY == MathRound(relativeY - offset.y, cell)
  IN [p EXCEPT !.currentX = Clamp(0, g - p.width, nextX),
               !.currentY = Clamp(0, g - p.height, nextY)]

\* handleMove of the registered listeners; draggingId is the one they captured
handleMove(relativeX, relativeY) ==
  /\ listenerId # NULL
  /\ LET g == gridSize(difficulty)
         cell == cellSize(containerSize, g)
     IN pieces' = [i \in 1 .. Len(pieces) |->
                     IF pieces[i].id = listenerId
                     THEN MovedPiece(pieces[i], relativeX, relativeY, g, cell)
                     ELSE pieces[i]]
  /\ UNCHANGED <<difficulty, draggingId, offset, isSolved, loading,
                 geminiHint, containerSize, listenerId, pending, instance>>

\* fault: only the row compared
AtHomeYOnly(p) == p.currentY = p.originalY

\* fault: only the column compared
AtHomeXOnly(p) == p.currentX = p.originalX

\* draggedPiece.currentX === draggedPiece.originalX && ...currentY === ...originalY
AtHome(p) == p.currentX = p.originalX /\ p.currentY = p.originalY

\* fault: the two groups concatenated the other way round
UnlockedFirst(updated) ==
  SelectSeq(updated, IsUnlockedPiece) \o SelectSeq(updated, IsLockedPiece)

\* [...updated.filter(p => p.isLocked), ...updated.filter(p => !p.isLocked)]
LockedFirst(updated) ==
  SelectSeq(updated, IsLockedPiece) \o SelectSeq(updated, IsUnlockedPiece)

\* fault: some instead of every
SomeLocked(final) == \E i \in 1 .. Len(final) : final[i].isLocked

\* final.every(p => p.isLocked)
EveryLocked(final) == \A i \in 1 .. Len(final) : final[i].isLocked

\* handleEnd of the registered listeners; draggingId is the one they captured
handleEnd ==
  /\ listenerId # NULL
  /\ IF \E i \in 1 .. Len(pieces) : pieces[i].id = listenerId /\ AtHome(pieces[i])
     THEN LET updated == [i \in 1 .. Len(pieces) |->
                            IF pieces[i].id = listenerId
                            THEN [pieces[i] EXCEPT !.isLocked = TRUE]
                            ELSE pieces[i]]
              final == LockedFirst(updated)
          IN /\ pieces' = final
             /\ isSolved' = (IF EveryLocked(final) THEN TRUE ELSE isSolved)
     ELSE UNCHANGED <<pieces, isSolved>>
  /\ draggingId' = NULL
  /\ listenerId' = DragEffect(listenerId, NULL)
  /\ UNCHANGED <<difficulty, offset, loading, geminiHint, containerSize,
                 pending, instance>>

(* ----------------------------- scatter --------------------------------- *)

\* fault: locked pieces scattered too
ScatterAll(p) == TRUE

\* the pieces scatter re-places: prev.filter(p => !p.isLocked)
ScatterTarget(p) == ~p.isLocked

\* fault: the scattered pieces put before the locked ones
ShuffledFirst(locked, scatteredShuffled) == scatteredShuffled \o locked

\* [...locked, ...scatteredShuffled]
ScatterResult(locked, scatteredShuffled) == locked \o scatteredShuffled

\* scatterPieces: the unlocked pieces re-placed by Math.random and put in the
\* order the random-comparator sort leaves them in, after the locked ones
scatterPieces ==
  LET locked == SelectSeq(pieces, LAMBDA p : ~ScatterTarget(p))
      unlocked == SelectSeq(pieces, ScatterTarget)
  IN /\ \E scattered \in PlaceAll(unlocked, gridSize(difficulty)) :
          \E scatteredShuffled \in Perms(scattered) :
            pieces' = ScatterResult(locked, scatteredShuffled)
     /\ UNCHANGED <<difficulty, draggingId, offset, isSolved, loading,
                    geminiHint, containerSize, listenerId, pending, instance>>

(* ------------------------------ hint ----------------------------------- *)

\* what a completed fetchHint passes to setGeminiHint: response.text, the
\* default for an empty response.text, or the text of the catch branch
HintTexts == {"text", "default", "fallback"}

\* fetchHint up to its first await: setLoading(true), the request leaves
fetchHint ==
  /\ Len(pending) < MaxPending
  /\ loading' = TRUE
  /\ pending' = Append(pending, instance)
  /\ UNCHANGED <<difficulty, pieces, draggingId, offset, isSolved, geminiHint,
                 containerSize, listenerId, instance>>

\* the rest of fetchHint, run when request k is answered or fails:
\* setGeminiHint(...) and, in finally, setLoading(false); the text is kept
\* together with the instance its request was started in
fetchHintSettled(k, text) ==
  /\ k \in 1 .. Len(pending)
  /\ geminiHint' = <<text, pending[k]>>
  /\ loading' = FALSE
  /\ pending' = [i \in 1 .. Len(pending) - 1 |->
                   IF i < k THEN pending[i] ELSE pending[i + 1]]
  /\ UNCHANGED <<difficulty, pieces, draggingId, offset, isSolved,
                 containerSize, listenerId, instance>>

(* ------------------------------ events --------------------------------- *)

\* pointer position in column cx / row cy of the current grid
PointerAt(c, sub) ==
  c * cellSize(containerSize, gridSize(difficulty)) + sub

\* mousedown / touchstart on rendered piece i, at (gx, gy) inside its cell
DragStartAt(i, gx, gy) ==
  /\ startDrag(PointerAt(pieces[i].currentX, gx),
               PointerAt(pieces[i].currentY, gy), pieces[i])
  /\ lastEvent' = IF pieces[i].isLocked THEN "startDragLocked" ELSE "startDrag"

DragStart ==
  /\ \E i \in 1 .. Len(pieces), gx \in GrabPoints, gy \in GrabPoints :
       DragStartAt(i, gx, gy)
  /\ UNCHANGED grab

\* mousemove / touchmove reaching window: handled by the registered
\* listeners, if any
PointerMoveAt(relativeX, relativeY) ==
  /\ IF listenerId = NULL
     THEN UNCHANGED appState
     ELSE handleMove(relativeX, relativeY)
  /\ lastEvent' = IF draggingId = NULL THEN "moveIdle" ELSE "move"

PointerMove ==
  /\ \E cx \in PointerCells, cy \in PointerCells, sub \in PointerSub :
       PointerMoveAt(PointerAt(cx, sub), PointerAt(cy, sub))
  /\ UNCHANGED grab

\* mouseup / touchend reaching window
PointerUp ==
  /\ IF listenerId = NULL
     THEN UNCHANGED appState
     ELSE handleEnd
  /\ lastEvent' = IF draggingId = NULL THEN "endIdle" ELSE "end"
  /\ UNCHANGED grab

\* Scatter button
Scatter == scatterPieces /\ lastEvent' = "scatter" /\ UNCHANGED grab

DifficultyChange ==
  /\ \E d \in Difficulty : setDifficulty(d)
  /\ lastEvent' = "reset"
  /\ UNCHANGED grab

Resize ==
  /\ \E w \in ParentWidths : updateSize(w)
  /\ lastEvent' = "resize"
  /\ UNCHANGED grab

Next ==
  \/ DragStart
  \/ PointerMove
  \/ PointerUp
  \/ Scatter
  \/ Reset
  \/ DifficultyChange
  \/ Resize

Spec == Init /\ [][Next]_vars

(* ----------------- the puzzle together with the hint ------------------- *)

\* hint button, disabled={loading}
HintClick ==
  /\ ~loading
  /\ fetchHint
  /\ lastEvent' = "hint"
  /\ UNCHANGED grab

\* the answer to (or failure of) one of the requests in flight
HintSettled ==
  /\ \E k \in 1 .. Len(pending), text \in HintTexts : fetchHintSettled(k, text)
  /\ lastEvent' = "hintSettled"
  /\ UNCHANGED grab

HintDragStart ==
  /\ \E i \in 1 .. Len(pieces) : DragStartAt(i, 0, 0)
  /\ UNCHANGED grab

HintPointerMove ==
  /\ \E c \in HintPointerCells : PointerMoveAt(PointerAt(c, 0), PointerAt(c, 0))
  /\ UNCHANGED grab

NextHint ==
  \/ HintClick
  \/ HintSettled
  \/ HintDragStart
  \/ HintPointerMove
  \/ PointerUp
  \/ Scatter
  \/ Reset

SpecHint == Init /\ [][NextHint]_vars

(* --------------- drags with their starting point recorded --------------- *)

GrabDragStart ==
  \E i \in 1 .. Len(pieces), gx \in GrabPoints :
    /\ DragStartAt(i, gx, gx)
    /\ grab' = IF pieces[i].isLocked
               THEN grab
               ELSE [id |-> pieces[i].id,
                     relativeX |-> PointerAt(pieces[i].currentX, gx),
                     relativeY |-> PointerAt(pieces[i].currentY, gx),
                     currentX |-> pieces[i].currentX,
                     currentY |-> pieces[i].currentY,
                     direct |-> TRUE, k |-> 0]

\* the pointer taken k cell widths away, along both axes, from where the
\* drag started
GrabPointerMove ==
  /\ draggingId # NULL
  /\ grab # NULL
  /\ \E k \in GrabSteps :
       /\ PointerMoveAt(grab.relativeX + k * cellSize(containerSize, gridSize(difficulty)),
                        grab.relativeY + k * cellSize(containerSize, gridSize(difficulty)))
       /\ grab' = [grab EXCEPT !.direct = FALSE, !.k = k]

\* an event other than pointer-up has followed the drag-start
Followed(g) == IF g = NULL THEN NULL ELSE [g EXCEPT !.direct = FALSE]

GrabScatter ==
  scatterPieces /\ lastEvent' = "scatter" /\ grab' = Followed(grab)

GrabResize ==
  /\ \E w \in ParentWidths : updateSize(w)
  /\ lastEvent' = "resize"
  /\ grab' = Followed(grab)

NextDrag ==
  \/ GrabDragStart
  \/ GrabPointerMove
  \/ PointerUp
  \/ GrabScatter
  \/ GrabResize

SpecDrag == Init /\ [][NextDrag]_vars

(* ------------------------- checked properties -------------------------- *)

HasPiece(s, id) == \E i \in 1 .. Len(s) : s[i].id = id

IndexOf(s, id) == CHOOSE i \in 1 .. Len(s) : s[i].id = id

Dragged == pieces[IndexOf(pieces, draggingId)]

Home(p) == p.currentX = p.originalX /\ p.currentY = p.originalY

\* C1: within one puzzle instance a locked piece stays locked and keeps its
\* (currentX, currentY) over every step (drag-start, pointer-move, drag-end,
\* scatter, resize); only a regeneration ends the guarantee.
C1_LockedFrozen ==
  [][ instance' = instance =>
        \A i \in 1 .. Len(pieces) :
          pieces[i].isLocked =>
            \E j \in 1 .. Len(pieces') :
              /\ pieces'[j].id = pieces[i].id
              /\ pieces'[j].isLocked
              /\ pieces'[j].currentX = pieces[i].currentX
              /\ pieces'[j].currentY = pieces[i].currentY ]_vars

\* a pointer-move of an active drag has just run while another piece is locked
C1_Witness ==
  /\ lastEvent = "move"
  /\ HasPiece(pieces, draggingId)
  /\ \E i \in 1 .. Len(pieces) : pieces[i].isLocked

C3_SolvedIffAllLocked ==
  isSolved <=> (\A i \in 1 .. Len(pieces) : pieces[i].isLocked)

\* the release that locked the last piece of a puzzle of several pieces
C3_Witness ==
  /\ lastEvent = "end"
  /\ isSolved
  /\ Len(pieces) >= 2

\* C4: every locked piece sits on its home cell, and a piece turns from
\* unlocked to locked only in a drag-end of that very piece while it is on its
\* home cell (never by shuffle, scatter or pointer-move).
C4_LockedOnlyByReleaseAtHome ==
  /\ [](\A i \in 1 .. Len(pieces) : pieces[i].isLocked => Home(pieces[i]))
  /\ [][ \A j \in 1 .. Len(pieces') :
           pieces'[j].isLocked =>
             \E i \in 1 .. Len(pieces) :
               /\ pieces[i].id = pieces'[j].id
               /\ \/ pieces[i].isLocked
                  \/ /\ lastEvent' = "end"
                     /\ draggingId = pieces[i].id
                     /\ draggingId' = NULL
                     /\ Home(pieces[i]) ]_vars

\* scatter has put an unlocked piece on its home cell next to a locked one
C4_Witness ==
  /\ lastEvent = "scatter"
  /\ \E i \in 1 .. Len(pieces) : pieces[i].isLocked
  /\ \E i \in 1 .. Len(pieces) : ~pieces[i].isLocked /\ Home(pieces[i])

\* C5: a scatter step changes no piece's isLocked, leaves every locked piece
\* (coordinates included) as it was, and leaves isSolved unchanged, whether or
\* not a drag is active.
C5_ScatterKeepsLocked ==
  [][ lastEvent' = "scatter" =>
        /\ Len(pieces') = Len(pieces)
        /\ \A i \in 1 .. Len(pieces) :
             \E j \in 1 .. Len(pieces') :
               /\ pieces'[j].id = pieces[i].id
               /\ pieces'[j].isLocked = pieces[i].isLocked
               /\ pieces[i].isLocked => pieces'[j] = pieces[i]
        /\ isSolved' = isSolved ]_vars

\* scatter has run during a drag, with locked and unlocked pieces present
C5_Witness ==
  /\ lastEvent = "scatter"
  /\ draggingId # NULL
  /\ \E i \in 1 .. Len(pieces) : pieces[i].isLocked
  /\ \E i \in 1 .. Len(pieces) : ~pieces[i].isLocked

\* C6: in the state right after a regeneration no drag is active.
C6_ResetDiscardsDrag ==
  [][ instance' # instance => draggingId' = NULL ]_vars

\* C7: a drag-start on another unlocked piece while a drag is active is
\* rejected: draggingId, offset and the piece order stay as they were.
C7_SecondDragRejected ==
  [][ (lastEvent' = "startDrag" /\ draggingId # NULL /\ draggingId' # draggingId) =>
        (draggingId' = draggingId /\ offset' = offset /\ pieces' = pieces) ]_vars

\* the piece of sequence s with the given id, after the release locks id
Released(p, id) == IF p.id = id THEN [p EXCEPT !.isLocked = TRUE] ELSE p

\* C8: a drag-end of piece P on its home cell locks P, keeps every other piece
\* as it was, and leaves the sequence as all locked pieces followed by all
\* unlocked ones, each group in its previous relative order, with no piece
\* added, removed or duplicated.
C8_ReleaseAtHomePartitions ==
  [][ (lastEvent' = "end" /\ HasPiece(pieces, draggingId) /\ Home(Dragged)) =>
        /\ Len(pieces') = Len(pieces)
        /\ \A j, k \in 1 .. Len(pieces') : j # k => pieces'[j].id # pieces'[k].id
        /\ \A i \in 1 .. Len(pieces) :
             \E j \in 1 .. Len(pieces') : pieces'[j] = Released(pieces[i], draggingId)
        /\ \A j, k \in 1 .. Len(pieces') :
             j < k =>
               /\ pieces'[k].isLocked => pieces'[j].isLocked
               /\ (pieces'[j].isLocked = pieces'[k].isLocked) =>
                    IndexOf(pieces, pieces'[j].id) < IndexOf(pieces, pieces'[k].id) ]_vars

\* a release has locked the piece generated last and moved it ahead of two
\* pieces that are still unlocked
C8_Witness ==
  /\ lastEvent = "end"
  /\ Len(pieces) = 3
  /\ pieces[1].isLocked /\ pieces[1].id[2] = 3
  /\ ~pieces[2].isLocked /\ ~pieces[3].isLocked

\* C9: a drag-start on an unlocked piece P makes P the last element, keeps the
\* other pieces in their previous order, changes no piece's fields, and sets
\* draggingId to P.
C9_DragStartMovesLast ==
  [][ lastEvent' = "startDrag" =>
        /\ HasPiece(pieces, draggingId')
        /\ LET i == IndexOf(pieces, draggingId')
               n == Len(pieces)
           IN /\ ~pieces[i].isLocked
              /\ pieces' = [k \in 1 .. n |->
                              IF k < i THEN pieces[k]
                              ELSE IF k < n THEN pieces[k + 1]
                              ELSE pieces[i]] ]_vars

\* a drag has started on the piece generated first, which is now last
C9_Witness ==
  /\ lastEvent = "startDrag"
  /\ Len(pieces) >= 2
  /\ pieces[Len(pieces)].id[2] = 1
  /\ draggingId = pieces[Len(pieces)].id

\* r is (rel - off) / cell rounded to the nearest cell and clamped to 0 .. hi
RoundedClamped(r, rel, off, cell, hi) ==
  /\ 0 <= r /\ r <= hi
  /\ r > 0 => 2 * (rel - off) >= (2 * r - 1) * cell
  /\ r < hi => 2 * (rel - off) < (2 * r + 1) * cell

\* the pointer coordinates handleMove is fed along one axis
PointerSamples == { PointerAt(c, sub) : c \in PointerCells, sub \in PointerSub }

\* C10: for every pointer coordinate, inside the container or not, handleMove
\* puts the dragged piece on the rounded cell of (pointer - offset) / cellSize
\* clamped to [0, gridSize - width] x [0, gridSize - height]; the step changes
\* no other piece, no isLocked and not the order of the sequence.
C10_MoveRoundsAndClamps ==
  /\ [](HasPiece(pieces, draggingId) =>
          LET g == gridSize(difficulty)
              cell == cellSize(containerSize, g)
          IN \A r \in PointerSamples :
               LET m == MovedPiece(Dragged, r, r, g, cell)
               IN /\ RoundedClamped(m.currentX, r, offset.x, cell, g - m.width)
                  /\ RoundedClamped(m.currentY, r, offset.y, cell, g - m.height))
  /\ [][ lastEvent' = "move" =>
           LET g == gridSize(difficulty)
               cell == cellSize(containerSize, g)
           IN /\ Len(pieces') = Len(pieces)
              /\ \A i \in 1 .. Len(pieces) :
                   IF pieces[i].id = draggingId
                   THEN /\ pieces'[i] = [pieces[i] EXCEPT !.currentX = pieces'[i].currentX,
                                                          !.currentY = pieces'[i].currentY]
                        /\ \E rx \in PointerSamples :
                             RoundedClamped(pieces'[i].currentX, rx, offset.x, cell,
                                            g - pieces[i].width)
                        /\ \E ry \in PointerSamples :
                             RoundedClamped(pieces'[i].currentY, ry, offset.y, cell,
                                            g - pieces[i].height)
                   ELSE pieces'[i] = pieces[i] ]_vars

\* Scenario B: on the 10-wide grid a pointer-move has left the dragged piece of
\* width 4 at currentX = 6
C10_Witness ==
  /\ lastEvent = "move"
  /\ difficulty = "Medium"
  /\ HasPiece(pieces, draggingId)
  /\ Dragged.width = 4
  /\ Dragged.currentX = 6

\* C11: a pointer-move or pointer-up event received while no drag is active
\* is a no-op: the pieces (order, positions, isLocked), the solved flag and
\* the dragging-piece reference are unchanged by it.
C11_IdlePointerNoOp ==
  [][ (draggingId = NULL /\ lastEvent' \in {"moveIdle", "endIdle"}) =>
        UNCHANGED <<pieces, isSolved, draggingId>> ]_vars

\* a pointer-up arrived with no drag active while an unlocked piece sat on
\* its home cell, and the piece is still unlocked
C11_Witness ==
  /\ lastEvent = "endIdle"
  /\ draggingId = NULL
  /\ \E i \in 1 .. Len(pieces) : ~pieces[i].isLocked /\ Home(pieces[i])

\* C12: starting a hint request and its completion, with either outcome,
\* change no piece, nor the piece order, the solved flag or the active drag,
\* wherever they fall among the other events; and while a request is in
\* flight a drag-start on an unlocked piece starts the drag, and pointer-move,
\* pointer-up and scatter remain possible.
C12_HintLeavesPuzzle ==
  /\ [][ lastEvent' \in {"hint", "hintSettled"} =>
           UNCHANGED <<pieces, isSolved, draggingId, offset, difficulty,
                       containerSize, instance>> ]_vars
  /\ [][ (pending # <<>> /\ lastEvent' = "startDrag") =>
           /\ draggingId' # NULL
           /\ pieces'[Len(pieces')].id = draggingId' ]_vars
  /\ [](pending # <<>> =>
          /\ ENABLED HintDragStart
          /\ ENABLED HintPointerMove
          /\ ENABLED PointerUp
          /\ ENABLED Scatter)

\* a request completed in the middle of a drag, with one piece locked already
C12_Witness ==
  /\ lastEvent = "hintSettled"
  /\ geminiHint # NULL
  /\ HasPiece(pieces, draggingId)
  /\ \E i \in 1 .. Len(pieces) : pieces[i].isLocked

\* the pieces whose home rectangle holds cell (x, y)
HomeOwners(x, y) ==
  { i \in 1 .. Len(pieces) :
      /\ pieces[i].originalX <= x /\ x < pieces[i].originalX + pieces[i].width
      /\ pieces[i].originalY <= y /\ y < pieces[i].originalY + pieces[i].height }

C14_LockedBeforeUnlocked ==
  /\ [](\A j, k \in 1 .. Len(pieces) :
          (j < k /\ pieces[k].isLocked) => pieces[j].isLocked)
  /\ [][ lastEvent' = "scatter" =>
           LET locked == SelectSeq(pieces, IsLockedPiece)
           IN /\ Len(pieces') = Len(pieces)
              /\ SubSeq(pieces', 1, Len(locked)) = locked
              /\ \A j \in Len(locked) + 1 .. Len(pieces') :
                   /\ ~pieces'[j].isLocked
                   /\ HasPiece(pieces, pieces'[j].id) ]_vars

\* a scatter left one locked piece first and the two unlocked ones behind it
\* in the opposite of their generation order
C14_Witness ==
  /\ lastEvent = "scatter"
  /\ Len(pieces) = 3
  /\ pieces[1].isLocked
  /\ ~pieces[2].isLocked
  /\ ~pieces[3].isLocked
  /\ pieces[2].id[2] > pieces[3].id[2]

\* C15: a drag-end of piece P away from its home cell leaves P unlocked where
\* it was, changes neither the sequence, any coordinate, any isLocked nor the
\* solved flag, and ends the drag.
C15_ReleaseAwayKeepsAll ==
  [][ (lastEvent' = "end" /\ HasPiece(pieces, draggingId) /\ ~Home(Dragged)) =>
        /\ pieces' = pieces
        /\ ~pieces'[IndexOf(pieces', draggingId)].isLocked
        /\ isSolved' = isSolved
        /\ draggingId' = NULL ]_vars

\* in the first instance a drag has ended with nothing locked and the piece
\* that was dragged, the last one, away from its home cell
C15_Witness ==
  /\ lastEvent = "end"
  /\ instance = 0
  /\ draggingId = NULL
  /\ \A i \in 1 .. Len(pieces) : ~pieces[i].isLocked
  /\ ~Home(pieces[Len(pieces)])

\* C16: a drag-start on an unlocked piece followed at once by the drag-end
\* leaves the piece on the cell it had before the drag-start, locked if that
\* cell is its home cell and unlocked otherwise.
C16_UnmovedDragEvaluatesLock ==
  [][ (/\ lastEvent' = "end"
       /\ grab # NULL
       /\ grab.direct
       /\ grab.id = draggingId
       /\ HasPiece(pieces, draggingId)) =>
        LET q == pieces'[IndexOf(pieces', draggingId)]
        IN /\ q.currentX = grab.currentX
           /\ q.currentY = grab.currentY
           /\ q.isLocked <=> (grab.currentX = q.originalX /\ grab.currentY = q.originalY)
           /\ \A i \in 1 .. Len(pieces) :
                pieces[i].id # draggingId =>
                  \E j \in 1 .. Len(pieces') : pieces'[j] = pieces[i] ]_vars

\* a piece sitting unlocked on its home cell was grabbed and released at
\* once, and is locked, while another piece is still away from home
C16_Witness ==
  /\ lastEvent = "end"
  /\ grab # NULL
  /\ grab.direct
  /\ HasPiece(pieces, grab.id)
  /\ pieces[IndexOf(pieces, grab.id)].isLocked
  /\ \E i \in 1 .. Len(pieces) : ~pieces[i].isLocked /\ ~Home(pieces[i])

\* C17: a drag-start on a locked piece changes neither the sequence nor
\* draggingId nor the offset; and in every reachable state the piece named by
\* draggingId, if it is among the pieces, is unlocked.
C17_NoWayOutOfLocked ==
  /\ [][ lastEvent' = "startDragLocked" =>
           UNCHANGED <<pieces, draggingId, offset, isSolved>> ]_vars
  /\ [](HasPiece(pieces, draggingId) => ~Dragged.isLocked)

\* a locked piece was pressed while another piece was being dragged
C17_Witness ==
  /\ lastEvent = "startDragLocked"
  /\ HasPiece(pieces, draggingId)
  /\ \E i \in 1 .. Len(pieces) : pieces[i].isLocked

\* C18: during a drag, a pointer-move k cell widths away from the pointer
\* position of the drag-start puts the piece k cells away from the cell it had
\* at the drag-start, clamped to the grid (k = 0: the piece is where it was),
\* whatever has happened to the container size since the drag-start.
C18_GrabPointPreserved ==
  [][ (/\ lastEvent' = "move"
       /\ grab # NULL
       /\ grab.id = draggingId
       /\ HasPiece(pieces, draggingId)) =>
        LET q == pieces'[IndexOf(pieces', draggingId)]
            g == gridSize(difficulty)
        IN /\ q.currentX = Max(0, Min(g - q.width, grab.currentX + grab'.k))
           /\ q.currentY = Max(0, Min(g - q.height, grab.currentY + grab'.k)) ]_vars

\* C19: a step within one puzzle instance keeps the number of pieces, keeps
\* every id exactly once, and keeps the originalX, originalY, width and height
\* of every piece.
C19_IdentityConserved ==
  [][ instance' = instance =>
        /\ Len(pieces') = Len(pieces)
        /\ \A j, k \in 1 .. Len(pieces') : j # k => pieces'[j].id # pieces'[k].id
        /\ \A i \in 1 .. Len(pieces) :
             \E j \in 1 .. Len(pieces') :
               /\ pieces'[j].id = pieces[i].id
               /\ pieces'[j].originalX = pieces[i].originalX
               /\ pieces'[j].originalY = pieces[i].originalY
               /\ pieces'[j].width = pieces[i].width
               /\ pieces'[j].height = pieces[i].height ]_vars

\* with one piece locked, a drag has moved the piece generated last, now the
\* last of the sequence, off its home cell
C19_Witness ==
  /\ lastEvent = "move"
  /\ Len(pieces) = 3
  /\ pieces[1].isLocked
  /\ draggingId = pieces[3].id
  /\ pieces[3].id[2] = 3
  /\ ~Home(pieces[3])

\* C20: the advisory text, when set, comes from a request started in the
\* current puzzle instance, so a request in flight at a reset never fills the
\* text of the new instance; and loading stays true while a request is in
\* flight.
C20_ResetClearsHintForGood ==
  /\ geminiHint # NULL => geminiHint[2] = instance
  /\ pending # <<>> => loading

====
